---- MODULE Spec2Model ----
(***************************************************************************)
(* Model of sync_groups.py: the one-way synchronisation of Planning Center *)
(* groups into the Supabase table public.groups.                           *)
(*                                                                         *)
(* Python values are represented as follows.                               *)
(*   - a dict is a function whose domain is the set of keys present;       *)
(*     d.get(k) is Get(d, k).  Where the code writes `x.get(k, {}) or {}`  *)
(*     (or `... or []`), a JSON null and an absent key both read as the    *)
(*     empty value, so both are represented by the key being absent.       *)
(*   - ids, URLs, timestamps and plain attributes are TLA+ strings, with   *)
(*     None the Python None.                                               *)
(*   - tag names and type labels, which the code inspects character by     *)
(*     character (lower, in, startswith, split, strip), are sequences of   *)
(*     one-character strings, with NoneStr the Python None.                *)
(*   - a list is a sequence; NoneList is the None a list-valued column     *)
(*     may hold.                                                           *)
(***************************************************************************)
EXTENDS Integers, Sequences, FiniteSets, TLC

VARIABLES
    upstream,   \* the PCO server: the sequence of pages it serves
    table,      \* public.groups: the set of rows held by the destination
    run,        \* run[r]: the local state of invocation r of sync()
    arg,        \* the argument of a direct call of one of the pure helpers
    ret         \* the value that call returned

vars == <<upstream, table, run, arg, ret>>

----------------------------------------------------------------------------
(* Python values *)

None == "None"
NoneStr == <<"None">>
NoneList == <<NoneStr>>
EmptyDict == <<>>

Get(d, k) == IF k \in DOMAIN d THEN d[k] ELSE None
GetStr(d, k) == IF k \in DOMAIN d THEN d[k] ELSE NoneStr
GetDict(d, k) == IF k \in DOMAIN d THEN d[k] ELSE EmptyDict
GetList(d, k) == IF k \in DOMAIN d THEN d[k] ELSE <<>>

\* bool(v) for a string-or-None value, and for a character-sequence value
Truthy(v) == v # None /\ v # ""
TruthyStr(s) == s # NoneStr /\ s # <<>>

Uppers == <<"A","B","C","D","E","F","G","H","I","J","K","L","M",
            "N","O","P","Q","R","S","T","U","V","W","X","Y","Z">>
Lowers == <<"a","b","c","d","e","f","g","h","i","j","k","l","m",
            "n","o","p","q","r","s","t","u","v","w","x","y","z">>
Whitespace == {" ", "\t", "\n", "\r", "\f"}

lower_char(c) ==
    IF \E i \in 1..Len(Uppers) : Uppers[i] = c
    THEN Lowers[CHOOSE i \in 1..Len(Uppers) : Uppers[i] = c]
    ELSE c

\* str.lower()
lower(s) == [i \in 1..Len(s) |-> lower_char(s[i])]

\* `sub in s`
contains(s, sub) ==
    \E i \in 1..(Len(s) - Len(sub) + 1) : SubSeq(s, i, i + Len(sub) - 1) = sub

\* s.startswith(p)
startswith(s, p) == Len(s) >= Len(p) /\ SubSeq(s, 1, Len(p)) = p

\* s.split(":", 1)[1]: what follows the first colon of s
split_colon_1(s) ==
    LET i == CHOOSE k \in 1..Len(s) : s[k] = ":" /\ \A j \in 1..(k - 1) : s[j] # ":"
    IN  SubSeq(s, i + 1, Len(s))

RECURSIVE lstrip(_)
lstrip(s) == IF s # <<>> /\ Head(s) \in Whitespace THEN lstrip(Tail(s)) ELSE s

RECURSIVE rstrip(_)
rstrip(s) ==
    IF s # <<>> /\ s[Len(s)] \in Whitespace THEN rstrip(SubSeq(s, 1, Len(s) - 1)) ELSE s

\* str.strip()
strip(s) == rstrip(lstrip(s))

TAG == <<"t","a","g">>
CAMPUS == <<"C","a","m","p","u","s",":">>
STAGE == <<"S","t","a","g","e",":">>
TYPE == <<"T","y","p","e",":">>
DAY == <<"D","a","y",":">>

----------------------------------------------------------------------------
(* build_tag_lookup *)

\* lookup_step with the first of several items of one id winning
lookup_step_first_wins(tag_lookup, item) ==
    LET attrs == GetDict(item, "attributes")
        tag_id == Get(item, "id")
        name == GetStr(attrs, "name")
        ty == GetStr(item, "type")
        t == lower(IF TruthyStr(ty) THEN ty ELSE <<>>)
    IN  IF ~Truthy(tag_id) \/ ~TruthyStr(name) THEN tag_lookup
        ELSE IF contains(t, TAG) THEN tag_lookup @@ (tag_id :> name)
        ELSE tag_lookup

\* one iteration of the loop over `included`
lookup_step(tag_lookup, item) ==
    LET attrs == GetDict(item, "attributes")
        tag_id == Get(item, "id")
        name == GetStr(attrs, "name")
        ty == GetStr(item, "type")
        t == lower(IF TruthyStr(ty) THEN ty ELSE <<>>)
    IN  IF ~Truthy(tag_id) \/ ~TruthyStr(name) THEN tag_lookup
        ELSE IF contains(t, TAG) THEN (tag_id :> name) @@ tag_lookup
        ELSE tag_lookup

RECURSIVE lookup_loop(_, _)
lookup_loop(included, tag_lookup) ==
    IF included = <<>> THEN tag_lookup
    ELSE lookup_loop(Tail(included), lookup_step(tag_lookup, Head(included)))

build_tag_lookup(included) == lookup_loop(included, EmptyDict)

----------------------------------------------------------------------------
(* parse_tags_for_group *)

\* the ids of the group's tag references, in relationship order
ref_ids(group) ==
    LET rel == GetDict(group, "relationships")
        tags_rel == GetDict(rel, "tags")
        tag_data == GetList(tags_rel, "data")
    IN  [i \in 1..Len(tag_data) |-> Get(tag_data[i], "id")]

\* the first loop: the references without an id are skipped
collect_tag_ids(group) == SelectSeq(ref_ids(group), Truthy)

collect_tag_names(group, tag_lookup) ==
    LET found == SelectSeq(collect_tag_ids(group), LAMBDA id : id \in DOMAIN tag_lookup)
    IN  [i \in 1..Len(found) |-> tag_lookup[found[i]]]

\* parse_step with the values left untrimmed
parse_step_untrimmed(acc, name) ==
    IF startswith(name, CAMPUS) THEN [acc EXCEPT !.campus = split_colon_1(name)]
    ELSE IF startswith(name, STAGE)
         THEN [acc EXCEPT !.stage_of_life = split_colon_1(name)]
    ELSE IF startswith(name, TYPE)
         THEN [acc EXCEPT !.group_type = split_colon_1(name)]
    ELSE IF startswith(name, DAY)
         THEN [acc EXCEPT !.days_of_week = Append(@, split_colon_1(name))]
    ELSE acc

\* one iteration of the second loop, over tag_names
parse_step(acc, name) ==
    IF startswith(name, CAMPUS) THEN [acc EXCEPT !.campus = strip(split_colon_1(name))]
    ELSE IF startswith(name, STAGE)
         THEN [acc EXCEPT !.stage_of_life = strip(split_colon_1(name))]
    ELSE IF startswith(name, TYPE)
         THEN [acc EXCEPT !.group_type = strip(split_colon_1(name))]
    ELSE IF startswith(name, DAY)
         THEN [acc EXCEPT !.days_of_week = Append(@, strip(split_colon_1(name)))]
    ELSE acc

RECURSIVE parse_loop(_, _)
parse_loop(names, acc) ==
    IF names = <<>> THEN acc ELSE parse_loop(Tail(names), parse_step(acc, Head(names)))

parse_tags_for_group(group, tag_lookup) ==
    LET tag_ids == collect_tag_ids(group)
        tag_names == collect_tag_names(group, tag_lookup)
        parsed == parse_loop(tag_names,
                     [campus |-> NoneStr, stage_of_life |-> NoneStr,
                      group_type |-> NoneStr, days_of_week |-> <<>>])
    IN  [campus |-> parsed.campus,
         stage_of_life |-> parsed.stage_of_life,
         group_type |-> parsed.group_type,
         days_of_week |-> parsed.days_of_week,
         tag_ids |-> tag_ids,
         tag_names |-> tag_names]

----------------------------------------------------------------------------
(* transform_group *)

\* is_open_of testing the presence of the key alone
is_open_of_key_present(attrs) == "archived_at" \notin DOMAIN attrs

is_open_of(attrs) == ~Truthy(Get(attrs, "archived_at"))

transform_group(group, tag_lookup) ==
    LET attrs == GetDict(group, "attributes")
        tag_info == parse_tags_for_group(group, tag_lookup)
    IN  [pco_group_id |-> Get(group, "id"),
         name |-> Get(attrs, "name"),
         description |-> Get(attrs, "description"),
         campus |-> tag_info.campus,
         days_of_week |-> IF tag_info.days_of_week # <<>>
                          THEN tag_info.days_of_week ELSE NoneList,
         time_of_day |-> Get(attrs, "meeting_time"),
         stage_of_life |-> tag_info.stage_of_life,
         group_type |-> tag_info.group_type,
         is_open |-> is_open_of(attrs),
         max_size |-> Get(attrs, "capacity"),
         current_size |-> Get(attrs, "enrollment"),
         church_center_url |-> Get(attrs, "url"),
         tags |-> [ids |-> tag_info.tag_ids, names |-> tag_info.tag_names]]

----------------------------------------------------------------------------
(* The PCO server *)

BASE_URL == "https://api.planningcenteronline.com/groups/v2/groups"
per_page == 100

\* The URL under which the server serves its i-th page: the collection
\* endpoint for the first, a cursor URL carrying its own query for the others.
PageUrl(i) ==
    IF i = 1 THEN BASE_URL
    ELSE BASE_URL \o "?offset=" \o ToString((i - 1) * per_page)

\* The JSON body the server answers a GET of `url` with.
Serve(url) == upstream[CHOOSE i \in 1..Len(upstream) : PageUrl(i) = url]

----------------------------------------------------------------------------
(* fetch_all_groups *)

\* next_url_of without the meta.next_page_url fallback
next_url_of_no_next_page_url(json_data) ==
    LET links == GetDict(json_data, "links")
        next_url == Get(links, "next")
        meta == GetDict(json_data, "meta")
    IN  IF Truthy(next_url) THEN next_url ELSE Get(meta, "next")

\* lines 99-108: the cursor one response carries
next_url_of(json_data) ==
    LET links == GetDict(json_data, "links")
        next_url == Get(links, "next")
        meta == GetDict(json_data, "meta")
    IN  IF Truthy(next_url) THEN next_url
        ELSE IF Truthy(Get(meta, "next")) THEN Get(meta, "next")
        ELSE Get(meta, "next_page_url")

\* extend keeping the last page's items only
extend_replacing(all, items) == items

\* lines 96-97: list.extend
extend(all, items) == all \o items

\* The local state of sync() when it is invoked with the table holding `t`.
\* requested, got_http_error, cleared, inserts, got_insert_error and
\* table_at_start record what the invocation has done and seen so far.
NewRun(t) ==
    [pc |-> "fetch", url |-> BASE_URL, page |-> 0,
     all_data |-> <<>>, all_included |-> <<>>,
     tag_lookup |-> EmptyDict, rows |-> <<>>, i |-> 0,
     requested |-> <<>>, got_http_error |-> FALSE,
     cleared |-> FALSE, inserts |-> 0, got_insert_error |-> FALSE,
     table_at_start |-> t]

\* Request with the failed response swallowed: the loop ends as if the
\* collection were exhausted, and sync() goes on with what it has.
Request_swallowing_error(r) ==
    /\ run[r].pc = "fetch"
    /\ \E ok \in BOOLEAN :
          LET page == run[r].page + 1
              sent == [url |-> run[r].url, params |-> (page = 1)]
              json_data == Serve(run[r].url)
              data == GetList(json_data, "data")
              included == GetList(json_data, "included")
              next_url == next_url_of(json_data)
          IN  run' = [run EXCEPT ![r] =
                 IF ~ok
                 THEN [@ EXCEPT !.pc = "prepare", !.page = page,
                                !.requested = Append(@, sent),
                                !.got_http_error = TRUE]
                 ELSE [@ EXCEPT !.pc = IF Truthy(next_url) THEN "fetch" ELSE "prepare",
                                !.page = page,
                                !.requested = Append(@, sent),
                                !.all_data = extend(@, data),
                                !.all_included = extend(@, included),
                                !.url = next_url]]
    /\ UNCHANGED <<upstream, table, arg, ret>>

\* One iteration of `while url`: one GET and the handling of its response.
\* `ok` is whether the response carries a success status; if it does not,
\* resp.raise_for_status() raises.
Request(r) ==
    /\ run[r].pc = "fetch"
    /\ \E ok \in BOOLEAN :
          LET page == run[r].page + 1
              sent == [url |-> run[r].url, params |-> (page = 1)]
              json_data == Serve(run[r].url)
              data == GetList(json_data, "data")
              included == GetList(json_data, "included")
              next_url == next_url_of(json_data)
          IN  run' = [run EXCEPT ![r] =
                 IF ~ok
                 THEN [@ EXCEPT !.pc = "failed_http", !.page = page,
                                !.requested = Append(@, sent),
                                !.got_http_error = TRUE]
                 ELSE [@ EXCEPT !.pc = IF Truthy(next_url) THEN "fetch" ELSE "prepare",
                                !.page = page,
                                !.requested = Append(@, sent),
                                !.all_data = extend(@, data),
                                !.all_included = extend(@, included),
                                !.url = next_url]]
    /\ UNCHANGED <<upstream, table, arg, ret>>

\* sync(), lines 234-238: the lookup, then the rows
Prepare(r) ==
    /\ run[r].pc = "prepare"
    /\ LET tag_lookup == build_tag_lookup(run[r].all_included)
           data == run[r].all_data
       IN  run' = [run EXCEPT ![r] =
              [@ EXCEPT !.pc = "clear",
                        !.tag_lookup = tag_lookup,
                        !.rows = [k \in 1..Len(data) |-> transform_group(data[k], tag_lookup)]]]
    /\ UNCHANGED <<upstream, table, arg, ret>>

----------------------------------------------------------------------------
(* The destination table and the two writes *)

batch_size == 200

\* delete().neq("pco_group_id", ""): the rows the statement leaves
after_delete(t) == {row \in t : ~(row.pco_group_id # "")}

\* public.groups: pco_group_id text not null unique, name text not null
violates_schema(t, batch) ==
    \/ \E k \in 1..Len(batch) : batch[k].pco_group_id = None \/ batch[k].name = None
    \/ \E k \in 1..Len(batch) : \E row \in t : row.pco_group_id = batch[k].pco_group_id
    \/ \E j, k \in 1..Len(batch) : j # k /\ batch[j].pco_group_id = batch[k].pco_group_id

\* What a run does when the loop over the batches is over, or goes on.
after_batch(rows, i) == IF i < Len(rows) THEN "insert" ELSE "done"

\* Clear held back while another run is between its delete and its last insert
Clear_locked(r) ==
    /\ run[r].pc = "clear"
    /\ \A q \in DOMAIN run \ {r} : ~(run[q].cleared /\ run[q].pc = "insert")
    /\ \E ok \in BOOLEAN :
          IF ok
          THEN /\ table' = after_delete(table)
               /\ run' = [run EXCEPT ![r] =
                     [@ EXCEPT !.pc = after_batch(run[r].rows, 0), !.i = 0,
                               !.cleared = TRUE]]
          ELSE /\ table' = table
               /\ run' = [run EXCEPT ![r] = [@ EXCEPT !.pc = "failed_clear"]]
    /\ UNCHANGED <<upstream, arg, ret>>

\* clear_groups_table(): `ok` is whether the response carries no error.
Clear(r) ==
    /\ run[r].pc = "clear"
    /\ \E ok \in BOOLEAN :
          IF ok
          THEN /\ table' = after_delete(table)
               /\ run' = [run EXCEPT ![r] =
                     [@ EXCEPT !.pc = after_batch(run[r].rows, 0), !.i = 0,
                               !.cleared = TRUE]]
          ELSE /\ table' = table
               /\ run' = [run EXCEPT ![r] = [@ EXCEPT !.pc = "failed_clear"]]
    /\ UNCHANGED <<upstream, arg, ret>>

\* The batch rows[i : i + batch_size]
batch_at(rows, i) ==
    SubSeq(rows, i + 1, IF i + batch_size < Len(rows) THEN i + batch_size ELSE Len(rows))

\* Insert with the error object of the response logged but not raised: the
\* loop goes on with the next batch.
Insert_ignoring_error(r) ==
    /\ run[r].pc = "insert"
    /\ \E ok \in BOOLEAN :
          LET batch == batch_at(run[r].rows, run[r].i)
              error == ~ok \/ violates_schema(table, batch)
          IN  IF error
              THEN /\ table' = table
                   /\ run' = [run EXCEPT ![r] =
                         [@ EXCEPT !.pc = after_batch(run[r].rows, run[r].i + batch_size),
                                   !.i = @ + batch_size, !.inserts = @ + 1,
                                   !.got_insert_error = TRUE]]
              ELSE /\ table' = table \cup {batch[k] : k \in 1..Len(batch)}
                   /\ run' = [run EXCEPT ![r] =
                         [@ EXCEPT !.pc = after_batch(run[r].rows, run[r].i + batch_size),
                                   !.i = @ + batch_size, !.inserts = @ + 1]]
    /\ UNCHANGED <<upstream, arg, ret>>

\* One iteration of the loop over the batches: one insert and the handling
\* of its response.  `ok` is whether the backend had no fault of its own;
\* a batch the schema rejects is answered with an error in any case.
Insert(r) ==
    /\ run[r].pc = "insert"
    /\ \E ok \in BOOLEAN :
          LET batch == batch_at(run[r].rows, run[r].i)
              error == ~ok \/ violates_schema(table, batch)
          IN  IF error
              THEN /\ table' = table
                   /\ run' = [run EXCEPT ![r] =
                         [@ EXCEPT !.pc = "failed_insert", !.inserts = @ + 1,
                                   !.got_insert_error = TRUE]]
              ELSE /\ table' = table \cup {batch[k] : k \in 1..Len(batch)}
                   /\ run' = [run EXCEPT ![r] =
                         [@ EXCEPT !.pc = after_batch(run[r].rows, run[r].i + batch_size),
                                   !.i = @ + batch_size, !.inserts = @ + 1]]
    /\ UNCHANGED <<upstream, arg, ret>>

----------------------------------------------------------------------------
(* Inputs: tag names, type labels, included resources, groups, pages *)

MaxPages == 2

N_CampusConway == CAMPUS \o <<" ","C","o","n","w","a","y">>
N_CampusNorth == CAMPUS \o <<" ","N","o","r","t","h">>
N_CampusAB == CAMPUS \o <<" ","A",":","B"," ">>
N_CampusBare == CAMPUS
N_DayMon == DAY \o <<" ","M","o","n">>
N_DayWed == DAY \o <<"W","e","d"," ">>
N_StageYA == STAGE \o <<" ","Y","A">>
N_TypeBS == TYPE \o <<" ","B"," ","S">>
N_Random == <<"R","a","n","d","o","m">>
N_campus == <<"c","a","m","p","u","s",":"," ","X">>
N_SpaceDay == <<" ">> \o DAY \o <<" ","F","r","i">>
N_Campus == <<"C","a","m","p","u","s">>

T_Tag == <<"T","a","g">>
T_tag == <<"t","a","g">>
T_group_tag == <<"g","r","o","u","p","_","t","a","g">>
T_GroupTAG == <<"G","r","o","u","p","T","A","G">>
T_Person == <<"P","e","r","s","o","n">>
T_Ta_g == <<"T","a","_","g">>

ItCampus == [type |-> T_Tag, id |-> "t1", attributes |-> [name |-> N_CampusConway]]
ItCampusNorth == [type |-> T_tag, id |-> "t1", attributes |-> [name |-> N_CampusNorth]]
ItDay == [type |-> T_group_tag, id |-> "t2", attributes |-> [name |-> N_DayMon]]
ItStage == [type |-> T_GroupTAG, id |-> "t3", attributes |-> [name |-> N_StageYA]]
ItPerson == [type |-> T_Person, id |-> "t4", attributes |-> [name |-> N_TypeBS]]
ItNoName == [type |-> T_Tag, id |-> "t4", attributes |-> [color |-> "red"]]

Ref(id) == [type |-> "Tag", id |-> id]
Tags(refs) == [tags |-> [data |-> refs]]

GroupA == [type |-> "Group", id |-> "g1",
           attributes |-> [name |-> "Alpha", description |-> "first",
                           meeting_time |-> "18:30", capacity |-> "12",
                           enrollment |-> "7", url |-> "https://example.org/g1"],
           relationships |-> Tags(<<Ref("t1"), Ref("t2")>>)]
GroupA2 == [type |-> "Group", id |-> "g1", attributes |-> [name |-> "Alpha again"]]
GroupB == [type |-> "Group", id |-> "g2",
           attributes |-> [name |-> "Beta", archived_at |-> "2024-05-01T00:00:00Z"],
           relationships |-> Tags(<<Ref("t3"), Ref("t4"), [type |-> "Tag"], Ref("t2")>>)]
GroupC == [type |-> "Group", id |-> "g3", attributes |-> [name |-> "Gamma"]]
GroupBare == [type |-> "Group"]

\* What a page may carry as data and included resources
Contents ==
    { [data |-> <<GroupA, GroupB>>, included |-> <<ItCampus>>],
      [data |-> <<GroupC>>, included |-> <<ItDay, ItStage, ItPerson>>],
      [data |-> <<GroupB>>, included |-> <<ItCampusNorth, ItNoName, ItDay>>],
      [data |-> <<GroupA2>>],
      [data |-> <<GroupC, GroupBare>>, included |-> <<ItPerson>>],
      [included |-> <<ItStage>>] }

\* How a page may name the URL `u` of the page that follows it
NextCursors(u) ==
    { [links |-> [self |-> BASE_URL, next |-> u], meta |-> [next |-> BASE_URL]],
      [meta |-> [next |-> u]],
      [links |-> [next |-> ""], meta |-> [next_page_url |-> u]],
      [links |-> [next |-> None], meta |-> [next |-> "", next_page_url |-> u]] }

\* How a page may say that no page follows it
FinalCursors ==
    { EmptyDict,
      [links |-> [self |-> BASE_URL, next |-> ""],
       meta |-> [total_count |-> "3", next |-> None, next_page_url |-> ""]] }

\* The upstreams of n pages.  The server paginates by cursor: the next
\* reference of a page, under whichever key it is given, is the URL of the
\* page that follows, so no cursor leads back to a page already served.  Every
\* page but the last names the next one (or, as the server is free to, ends
\* the collection early); the last names none.
UpstreamsOf(n) ==
    { u \in [1..n -> {c @@ k : c \in Contents,
                               k \in FinalCursors \cup UNION {NextCursors(PageUrl(j)) : j \in 2..n}}] :
        /\ u[n] \in {c @@ k : c \in Contents, k \in FinalCursors}
        /\ \A j \in 1..(n - 1) :
              u[j] \in {c @@ k : c \in Contents,
                                 k \in NextCursors(PageUrl(j + 1)) \cup {EmptyDict}} }

SmallUpstreams == UNION {UpstreamsOf(n) : n \in 1..MaxPages}

\* The upstream of n plain groups, served per_page at a time
BulkGroup(k) == [type |-> "Group", id |-> ToString(k),
                 attributes |-> [name |-> "Group " \o ToString(k)]]
BulkPages(n) == IF n = 0 THEN 1 ELSE (n + per_page - 1) \div per_page
BulkUpstream(n) ==
    [p \in 1..BulkPages(n) |->
        LET first == (p - 1) * per_page
            count == IF n - first < per_page THEN n - first ELSE per_page
            body == [data |-> [j \in 1..count |-> BulkGroup(first + j)],
                     included |-> <<>>]
        IN  IF p < BulkPages(n)
            THEN body @@ [links |-> [self |-> PageUrl(p), next |-> PageUrl(p + 1)]]
            ELSE body @@ [links |-> [self |-> PageUrl(p)]]]

BulkCounts == {0, 200, 201, 401}
BulkUpstreams == {BulkUpstream(n) : n \in BulkCounts}

\* Rows the destination may hold before a run: an earlier version of g1, a
\* group that has since left the upstream, and a row whose key is empty.
OldRow(id, name) ==
    [pco_group_id |-> id, name |-> name, description |-> None,
     campus |-> NoneStr, days_of_week |-> NoneList, time_of_day |-> None,
     stage_of_life |-> NoneStr, group_type |-> NoneStr, is_open |-> TRUE,
     max_size |-> None, current_size |-> None, church_center_url |-> None,
     tags |-> [ids |-> <<>>, names |-> <<>>]]
InitTables ==
    { {},
      {OldRow("g1", "Alpha, last week"), OldRow("g9", "Gone")},
      {OldRow("g9", "Gone"), OldRow("", "Keyless")} }

----------------------------------------------------------------------------
(* One invocation of sync() *)

\* No direct call of a helper is under way
NoCall == [fn |-> "none"]
NotReturned == [done |-> FALSE]

OneRun == {1}

Init ==
    /\ upstream \in SmallUpstreams \cup BulkUpstreams
    /\ table \in InitTables
    /\ run = [r \in OneRun |-> NewRun(table)]
    /\ arg = NoCall
    /\ ret = NotReturned

Next == \E r \in OneRun : Request(r) \/ Prepare(r) \/ Clear(r) \/ Insert(r)

Spec == Init /\ [][Next]_vars

----------------------------------------------------------------------------
(* Successive invocations of sync(), each begun after the one before ended *)

MaxRuns == 2

Ended == {"done", "failed_http", "failed_clear", "failed_insert"}

\* An invocation that has not begun
Idle == [NewRun({}) EXCEPT !.pc = "idle"]

\* lines 264-265: the job is run again, once the run before it has ended
Start(r) ==
    /\ r > 1
    /\ run[r].pc = "idle"
    /\ run[r - 1].pc \in Ended
    /\ run' = [run EXCEPT ![r] = NewRun(table)]
    /\ UNCHANGED <<upstream, table, arg, ret>>

RerunUpstreams == UpstreamsOf(1) \cup {BulkUpstream(201)}

InitReruns ==
    /\ upstream \in RerunUpstreams
    /\ table \in InitTables
    /\ run = [r \in 1..MaxRuns |-> IF r = 1 THEN NewRun(table) ELSE Idle]
    /\ arg = NoCall
    /\ ret = NotReturned

NextReruns ==
    \E r \in 1..MaxRuns :
        Start(r) \/ Request(r) \/ Prepare(r) \/ Clear(r) \/ Insert(r)

SpecReruns == InitReruns /\ [][NextReruns]_vars

----------------------------------------------------------------------------
(* Two invocations of sync() at once, against the same table *)

TwoRuns == {1, 2}

ConcurrentUpstreams ==
    { <<[data |-> <<GroupA, GroupC>>, included |-> <<ItCampus, ItDay>>]>>,
      BulkUpstream(201) }

InitConcurrent ==
    /\ upstream \in ConcurrentUpstreams
    /\ table \in InitTables
    /\ run = [r \in TwoRuns |-> NewRun(table)]
    /\ arg = NoCall
    /\ ret = NotReturned

NextConcurrent ==
    \E r \in TwoRuns : Request(r) \/ Prepare(r) \/ Clear(r) \/ Insert(r)

SpecConcurrent == InitConcurrent /\ [][NextConcurrent]_vars

----------------------------------------------------------------------------
(* Direct calls of the pure helpers *)

MaxIncluded == 4
MaxRefs == 4

ItEmptyName == [type |-> T_Tag, id |-> "t3", attributes |-> [name |-> <<>>]]
ItEmptyId == [type |-> T_Tag, id |-> "", attributes |-> [name |-> N_Random]]
ItNoId == [type |-> T_tag, attributes |-> [name |-> N_Random]]
ItNoType == [id |-> "t5", attributes |-> [name |-> N_Random]]
ItAlmostTag == [type |-> T_Ta_g, id |-> "t5", attributes |-> [name |-> N_Random]]

LookupItems ==
    { ItCampus, ItCampusNorth, ItDay, ItStage, ItPerson, ItNoName,
      ItEmptyName, ItEmptyId, ItNoId, ItNoType, ItAlmostTag }

SeqsUpTo(S, n) == UNION {[1..k -> S] : k \in 0..n}

InitLookup ==
    /\ upstream = <<>>
    /\ table = {}
    /\ run = <<>>
    /\ arg \in {[fn |-> "build_tag_lookup", included |-> inc] :
                   inc \in SeqsUpTo(LookupItems, MaxIncluded)}
    /\ ret = NotReturned

\* build_tag_lookup(included)
Call_build_tag_lookup ==
    /\ arg.fn = "build_tag_lookup"
    /\ ~ret.done
    /\ ret' = [done |-> TRUE, value |-> build_tag_lookup(arg.included)]
    /\ UNCHANGED <<upstream, table, run, arg>>

SpecLookup == InitLookup /\ [][Call_build_tag_lookup]_vars

\* The references a group may carry, and the shapes a group may have
RefChoices ==
    { Ref("t1"), Ref("t2"), Ref("t3"), Ref("t4"), Ref("t9"), Ref(""), [type |-> "Tag"] }

GroupsWithRefs ==
    { [id |-> "g1", attributes |-> [name |-> "Alpha"], relationships |-> Tags(refs)] :
        refs \in SeqsUpTo(RefChoices, MaxRefs) }
    \cup { [id |-> "g1", attributes |-> [name |-> "Alpha"]],
           [id |-> "g1", relationships |-> EmptyDict],
           [id |-> "g1", relationships |-> [tags |-> EmptyDict]],
           [id |-> "g1", relationships |-> [owner |-> [data |-> <<Ref("t1")>>]]] }

ParseLookups ==
    { EmptyDict,
      [t1 |-> N_CampusConway, t2 |-> N_DayMon, t3 |-> N_DayWed, t4 |-> N_Random],
      [t1 |-> N_StageYA, t2 |-> N_TypeBS, t3 |-> N_campus, t4 |-> N_SpaceDay],
      [t1 |-> N_CampusAB, t2 |-> N_CampusBare, t3 |-> N_Campus, t4 |-> N_CampusNorth],
      [t1 |-> N_DayMon, t2 |-> N_DayMon, t4 |-> N_TypeBS] }

InitParse ==
    /\ upstream = <<>>
    /\ table = {}
    /\ run = <<>>
    /\ arg \in {[fn |-> "parse_tags_for_group", group |-> g, tag_lookup |-> l] :
                   g \in GroupsWithRefs, l \in ParseLookups}
    /\ ret = NotReturned

\* parse_tags_for_group(group, tag_lookup)
Call_parse_tags_for_group ==
    /\ arg.fn = "parse_tags_for_group"
    /\ ~ret.done
    /\ ret' = [done |-> TRUE, value |-> parse_tags_for_group(arg.group, arg.tag_lookup)]
    /\ UNCHANGED <<upstream, table, run, arg>>

SpecParse == InitParse /\ [][Call_parse_tags_for_group]_vars

\* The attributes a group may carry: archived_at absent, null, empty, or a
\* timestamp, beside the plain attributes
ArchivedAts == {None, "", "2024-05-01T00:00:00Z", "1999-12-31T23:59:59Z"}

AttributeDicts ==
    LET plain == { EmptyDict, [name |-> "Alpha"],
                   [name |-> "Alpha", meeting_time |-> "18:30", capacity |-> "12"] }
    IN  plain \cup {[archived_at |-> a] @@ p : a \in ArchivedAts, p \in plain}

GroupsWithAttributes ==
    { [id |-> "g1", attributes |-> a, relationships |-> Tags(refs)] :
        a \in AttributeDicts,
        refs \in {<<>>, <<Ref("t1")>>, <<Ref("t2"), Ref("t9"), Ref("t3")>>} }
    \cup { [id |-> "g1"], [attributes |-> [archived_at |-> "2024-05-01T00:00:00Z"]] }

InitTransform ==
    /\ upstream = <<>>
    /\ table = {}
    /\ run = <<>>
    /\ arg \in {[fn |-> "transform_group", group |-> g, tag_lookup |-> l] :
                   g \in GroupsWithAttributes, l \in ParseLookups}
    /\ ret = NotReturned

\* transform_group(group, tag_lookup)
Call_transform_group ==
    /\ arg.fn = "transform_group"
    /\ ~ret.done
    /\ ret' = [done |-> TRUE, value |-> transform_group(arg.group, arg.tag_lookup)]
    /\ UNCHANGED <<upstream, table, run, arg>>

SpecTransform == InitTransform /\ [][Call_transform_group]_vars

----------------------------------------------------------------------------
(* What the claims speak of, said without the code's own helpers *)

\* The page carries a next reference: links.next, or the meta fallbacks
HasCursor(body) ==
    LET links == GetDict(body, "links")
        meta == GetDict(body, "meta")
    IN  \/ Get(links, "next") \notin {None, ""}
        \/ Get(meta, "next") \notin {None, ""}
        \/ Get(meta, "next_page_url") \notin {None, ""}

RECURSIVE ConcatOf(_, _)
\* The concatenation of field `key` of the server's pages 1..n
ConcatOf(key, n) ==
    IF n = 0 THEN <<>> ELSE ConcatOf(key, n - 1) \o GetList(upstream[n], key)

RECURSIVE CountOf(_, _)
\* The sum of the lengths of field `key` of the server's pages 1..n
CountOf(key, n) ==
    IF n = 0 THEN 0 ELSE CountOf(key, n - 1) + Len(GetList(upstream[n], key))

Distinct(seq) == \A j, k \in 1..Len(seq) : j # k => seq[j] # seq[k]

FetchReturned(r) == run[r].pc \notin {"fetch", "failed_http"}

\* C1: fetch_all_groups returns the concatenation of the data, and of the
\* included resources, of every page in page order, so that the count returned
\* is the sum of the per-page counts; it requests no page twice; and it goes on
\* after a page exactly when that page carries a next reference (links.next or
\* the meta.next / meta.next_page_url fallback).
C1_FetchConcatenatesPages ==
    \A r \in DOMAIN run :
        LET n == run[r].page
            got == IF run[r].got_http_error THEN n - 1 ELSE n
        IN  /\ run[r].all_data = ConcatOf("data", got)
            /\ run[r].all_included = ConcatOf("included", got)
            /\ Len(run[r].all_data) = CountOf("data", got)
            /\ Len(run[r].requested) = n
            /\ Distinct([k \in 1..n |-> run[r].requested[k].url])
            /\ \A k \in 1..(got - 1) : HasCursor(upstream[k])
            /\ (run[r].pc = "fetch" /\ n > 0) => HasCursor(upstream[n])
            /\ FetchReturned(r) => ~HasCursor(upstream[n])

\* Two pages were fetched, the first naming the second only through the
\* meta.next_page_url fallback, and both brought groups.
C1_Witness ==
    \E r \in DOMAIN run :
        /\ FetchReturned(r) /\ run[r].page = 2
        /\ "next" \notin DOMAIN GetDict(upstream[1], "meta")
        /\ ~Truthy(Get(GetDict(upstream[1], "links"), "next"))
        /\ GetList(upstream[1], "data") # <<>> /\ GetList(upstream[2], "data") # <<>>
        /\ Len(run[r].all_data) = 3

\* C2: after a run of sync() that completes successfully, whatever the table
\* held before, the table holds exactly one row per distinct upstream group id
\* fetched in that run and no row for a group id absent from that run's data.
C2_ReplaceAllLeavesExactlyUpstream ==
    \A r \in DOMAIN run :
        run[r].pc = "done" =>
            /\ \A id \in {Get(run[r].all_data[k], "id") : k \in 1..Len(run[r].all_data)} :
                  Cardinality({row \in table : row.pco_group_id = id}) = 1
            /\ \A row \in table :
                  \E k \in 1..Len(run[r].all_data) :
                      Get(run[r].all_data[k], "id") = row.pco_group_id

\* C3: if the response to the insert of batch k carries an error, sync()
\* raises and never reports success, issues no insert after batch k (k inserts
\* were issued in all), and leaves the delete and batches 1..k-1 committed:
\* the keyed rows of the table are exactly the rows of batches 1..k-1.
C3_InsertErrorAborts ==
    \A r \in DOMAIN run :
        run[r].got_insert_error =>
            /\ run[r].pc = "failed_insert"
            /\ run[r].cleared
            /\ run[r].i % batch_size = 0
            /\ run[r].inserts = (run[r].i \div batch_size) + 1
            /\ run[r].i < Len(run[r].rows)
            /\ {row \in table : row.pco_group_id # ""}
                  = {run[r].rows[k] : k \in 1..run[r].i}

\* The second of three batches was refused: the first is in the table, the
\* third was never sent.
C3_Witness ==
    \E r \in DOMAIN run :
        /\ run[r].got_insert_error
        /\ run[r].i = batch_size
        /\ Len(run[r].rows) > 2 * batch_size
        /\ run[r].inserts = 2
        /\ Cardinality(table) = batch_size

\* C4: if a page request returns a non-success status, the error propagates
\* at once: the request is not retried, no further page is requested, nothing
\* is deleted or inserted, and the table is as it was; and no write of any kind
\* happens before every page is fetched and every row transformed.
C4_HttpErrorLeavesTableUntouched ==
    \A r \in DOMAIN run :
        /\ run[r].got_http_error =>
              /\ run[r].pc = "failed_http"
              /\ Len(run[r].requested) = run[r].page
              /\ Distinct([k \in 1..run[r].page |-> run[r].requested[k].url])
              /\ run[r].rows = <<>>
              /\ ~run[r].cleared /\ run[r].inserts = 0
              /\ table = run[r].table_at_start
        /\ (run[r].cleared \/ run[r].inserts > 0 \/ table # run[r].table_at_start) =>
              /\ ~run[r].got_http_error
              /\ ~HasCursor(upstream[run[r].page])
              /\ Len(run[r].rows) = CountOf("data", run[r].page)

\* The second page request failed while the table held rows.
C4_Witness ==
    \E r \in DOMAIN run :
        /\ run[r].got_http_error /\ run[r].page = 2
        /\ run[r].all_data # <<>>
        /\ table # {}

\* The label holds "tag" in some mix of upper and lower case
HoldsTagAnyCase(label) ==
    \E k \in 1..(Len(label) - 2) :
        label[k] \in {"t", "T"} /\ label[k + 1] \in {"a", "A"} /\ label[k + 2] \in {"g", "G"}

\* The included item is a tag resource: a tag-like type label, a non-empty
\* id and a non-empty name
IsTagResource(item) ==
    /\ Get(item, "id") \notin {None, ""}
    /\ GetStr(GetDict(item, "attributes"), "name") \notin {NoneStr, <<>>}
    /\ GetStr(item, "type") # NoneStr
    /\ HoldsTagAnyCase(GetStr(item, "type"))

\* The names under which tag id `id` arrives on any of the pages 1..n
NamesOnPages(id, n) ==
    UNION { { inc[j].attributes.name :
                j \in {k \in 1..Len(inc) : IsTagResource(inc[k]) /\ inc[k].id = id} } :
            inc \in {GetList(upstream[p], "included") : p \in 1..n} }

\* C5: no group's tags are resolved before the lookup holds the included
\* resources of all pages: in every row, each tag id the group references that
\* arrives as a valid tag resource on any page, earlier or later than the
\* group's own, is resolved to a name it arrives under.
C5_TagsResolvedAcrossPages ==
    \A r \in DOMAIN run :
        /\ run[r].pc \in {"fetch", "failed_http", "prepare"} =>
              run[r].rows = <<>> /\ run[r].tag_lookup = EmptyDict
        /\ run[r].pc \notin {"fetch", "failed_http", "prepare"} =>
              /\ Len(run[r].rows) = Len(run[r].all_data)
              /\ \A k \in 1..Len(run[r].rows) :
                    LET refs == ref_ids(run[r].all_data[k])
                        known == SelectSeq(refs,
                                    LAMBDA id : id \notin {None, ""}
                                                /\ NamesOnPages(id, run[r].page) # {})
                        names == run[r].rows[k].tags.names
                    IN  /\ Len(names) = Len(known)
                        /\ \A j \in 1..Len(names) :
                              names[j] \in NamesOnPages(known[j], run[r].page)

\* Group g1, on the first page, references tag t2, which arrives only on the
\* second page; the row of g1 carries its name.
C5_Witness ==
    \E r \in DOMAIN run :
        /\ run[r].pc = "clear" /\ run[r].page = 2
        /\ GetList(upstream[1], "data") = <<GroupA, GroupB>>
        /\ run[r].rows[1].pco_group_id = "g1"
        /\ \A j \in 1..Len(GetList(upstream[1], "included")) :
              Get(GetList(upstream[1], "included")[j], "id") # "t2"
        /\ run[r].rows[1].tags.names = <<N_CampusConway, N_DayMon>>


RowsOf(r) == {run[r].rows[k] : k \in 1..Len(run[r].rows)}

\* C6: two runs of sync() against one table are unsafe under replace-all.  No
\* lock holds back one run's delete while the other run is between its own
\* delete and its last insert; and a run that has reported success can find
\* rows it inserted missing from the table only through the other run's delete
\* (the state C6_Witness describes is reached).
C6_NoLockBetweenRuns ==
    \A r \in DOMAIN run : \A q \in DOMAIN run \ {r} :
        /\ (run[q].pc = "clear" /\ run[r].cleared /\ run[r].pc = "insert")
              => ENABLED Clear(q)
        /\ (run[r].pc = "done" /\ ~(RowsOf(r) \subseteq table)) => run[q].cleared

\* A run has reported success after two accepted batches, and the table lacks
\* the rows of its first batch: the other run's delete fell between the two.
C6_Witness ==
    \E r \in DOMAIN run : \E q \in DOMAIN run \ {r} :
        /\ run[r].pc = "done" /\ run[r].inserts = 2 /\ ~run[r].got_insert_error
        /\ run[r].rows[1] \notin table
        /\ run[r].rows[Len(run[r].rows)] \in table
        /\ run[q].cleared

\* C7: reruns are safe: over identical upstream data, with earlier runs free
\* to fail at the delete or at any batch, the table after a run that succeeds
\* (the first, and every later one) is the table one successful run from an
\* empty table produces: one row per upstream id, with the same field values.
C7_RerunsConverge ==
    \A r \in DOMAIN run :
        (run[r].pc = "done" /\ \A q \in DOMAIN run : q > r => ~run[q].cleared)
            => table = RowsOf(r)

\* The attributes of the group a helper was called with
AttrsOfArg == GetDict(arg.group, "attributes")

\* C8 as claimed: is_open is the negation of "archived_at is present and
\* non-null": false for any non-null value, true when absent or null.
C8_IsOpenIffAbsentOrNull ==
    (ret.done /\ arg.fn = "transform_group") =>
        ret.value.is_open =
            ~("archived_at" \in DOMAIN AttrsOfArg /\ AttrsOfArg.archived_at # None)

\* C8 as amended: is_open is the negation of the truth value of archived_at:
\* false for a non-null, non-empty value, true when the key is absent, null or
\* the empty string.
C8_IsOpenIffArchivedAtFalsy ==
    (ret.done /\ arg.fn = "transform_group") =>
        ret.value.is_open =
            ~("archived_at" \in DOMAIN AttrsOfArg /\ AttrsOfArg.archived_at \notin {None, ""})

\* transform_group returned is_open = true for an archived_at that is the
\* empty string, and the other columns as the attributes give them.
C8_Witness ==
    /\ ret.done /\ arg.fn = "transform_group"
    /\ "archived_at" \in DOMAIN AttrsOfArg /\ AttrsOfArg.archived_at = ""
    /\ ret.value.is_open = TRUE
    /\ ret.value.name = "Alpha"

\* The text with the whitespace at its two ends removed
Trimmed(s) ==
    LET ink == {k \in 1..Len(s) : s[k] \notin Whitespace}
    IN  IF ink = {} THEN <<>>
        ELSE SubSeq(s, CHOOSE a \in ink : \A k \in ink : a <= k,
                       CHOOSE b \in ink : \A k \in ink : b >= k)

HasPrefix(name, prefix) ==
    Len(name) >= Len(prefix) /\ \A k \in 1..Len(prefix) : name[k] = prefix[k]

\* The trimmed V of a name "Prefix: V"
ValueOf(name, prefix) == Trimmed(SubSeq(name, Len(prefix) + 1, Len(name)))

\* The value the last name of that prefix gives, None if there is none
LastValue(names, prefix) ==
    LET with == SelectSeq(names, LAMBDA n : HasPrefix(n, prefix))
    IN  IF with = <<>> THEN NoneStr ELSE ValueOf(with[Len(with)], prefix)

\* The ids the group's tag relationship lists
ReferencedIds(group) ==
    IF /\ "relationships" \in DOMAIN group
       /\ "tags" \in DOMAIN group.relationships
       /\ "data" \in DOMAIN group.relationships.tags
    THEN [k \in 1..Len(group.relationships.tags.data) |->
             IF "id" \in DOMAIN group.relationships.tags.data[k]
             THEN group.relationships.tags.data[k].id ELSE None]
    ELSE <<>>

\* C9: parse_tags_for_group keeps every referenced tag id in tag_ids in
\* relationship order (a reference without an id names none); tag_names holds,
\* in the same order, the names of the ids found in the lookup; a name
\* "Campus: V" / "Stage: V" / "Type: V" gives trimmed V to campus /
\* stage_of_life / group_type; each "Day: V" appends trimmed V to days_of_week
\* in order of appearance, duplicates kept; a name of no recognized prefix
\* changes no structured field, and no name makes the call fail.
C9_ParseTags ==
    (ret.done /\ arg.fn = "parse_tags_for_group") =>
        LET kept == SelectSeq(ReferencedIds(arg.group), LAMBDA id : id \notin {None, ""})
            found == SelectSeq(kept, LAMBDA id : id \in DOMAIN arg.tag_lookup)
            names == [k \in 1..Len(found) |-> arg.tag_lookup[found[k]]]
            days == SelectSeq(names, LAMBDA n : HasPrefix(n, DAY))
        IN  /\ ret.value.tag_ids = kept
            /\ ret.value.tag_names = names
            /\ ret.value.campus = LastValue(names, CAMPUS)
            /\ ret.value.stage_of_life = LastValue(names, STAGE)
            /\ ret.value.group_type = LastValue(names, TYPE)
            /\ ret.value.days_of_week = [k \in 1..Len(days) |-> ValueOf(days[k], DAY)]

\* The names "Campus: Conway", "Day: Mon", "Day:Wed " and "Random" gave the
\* campus Conway and the days Mon, Wed; Random is among the names only.
C9_Witness ==
    /\ ret.done /\ arg.fn = "parse_tags_for_group"
    /\ ret.value.tag_ids = <<"t1", "t2", "t3", "t4">>
    /\ ret.value.tag_names = <<N_CampusConway, N_DayMon, N_DayWed, N_Random>>
    /\ ret.value.campus = <<"C","o","n","w","a","y">>
    /\ ret.value.days_of_week = << <<"M","o","n">>, <<"W","e","d">> >>
    /\ ret.value.stage_of_life = NoneStr /\ ret.value.group_type = NoneStr

====
